---- MODULE Spec2Model ----
(***************************************************************************)
(* Parameter resolvers of google_cloud_pipeline_components                 *)
(* (_implementation/llm/function_based.py).  Every resolver is a function  *)
(* of its arguments; a caller invokes one resolver and receives either a   *)
(* value or a ValueError.  The state is one call: which resolver (op),     *)
(* with which arguments (args), whether it has run (pc) and what came back *)
(* (result); the wall clock the process reads (now); an earlier call kept  *)
(* for comparison (memo); and what the get_model launcher has done to the  *)
(* model service, the output artifacts and the gcp_resources file (world). *)
(***************************************************************************)
EXTENDS Integers, Sequences, FiniteSets, TLC

VARIABLES pc, op, args, result, now, memo, world

vars == <<pc, op, args, result, now, memo, world>>

----------------------------------------------------------------------------
(* Bounds of the explored inputs.                                          *)

\* accelerator counts are drawn from MinCount..MaxCount
MaxCount == 18

\* the clock runs from 0 to MaxTime seconds
MaxTime == 2

----------------------------------------------------------------------------
(* Python values.                                                          *)

\* Optional[T]: None is the empty tuple, a supplied value v is <<v>>
None == <<>>

Some(v) == <<v>>

\* bool() of an Optional[str]: None and '' are falsy
TruthyStr(o) == o # None /\ o[1] # ""

\* bool() of an Optional[int]: None and 0 are falsy
TruthyInt(o) == o # None /\ o[1] # 0

\* raise ValueError(msg)
Raise(msg) == [raised |-> TRUE, error |-> msg]

\* return v
Return(v) == [raised |-> FALSE, value |-> v]

----------------------------------------------------------------------------
(* Python str.  A string whose characters the code looks at is a sequence  *)
(* of one-character strings; Str joins it back into one string.            *)

\* ord(c) of the characters that occur
ord ==
  (" " :> 32) @@ ("-" :> 45) @@ ("." :> 46) @@ ("/" :> 47) @@ ("0" :> 48)
  @@ ("1" :> 49) @@ ("2" :> 50) @@ ("3" :> 51) @@ ("4" :> 52) @@ ("5" :> 53)
  @@ ("6" :> 54) @@ ("7" :> 55) @@ ("8" :> 56) @@ ("9" :> 57) @@ (":" :> 58)
  @@ ("@" :> 64) @@ ("A" :> 65) @@ ("B" :> 66) @@ ("C" :> 67) @@ ("D" :> 68)
  @@ ("E" :> 69) @@ ("F" :> 70) @@ ("G" :> 71) @@ ("H" :> 72) @@ ("I" :> 73)
  @@ ("J" :> 74) @@ ("K" :> 75) @@ ("L" :> 76) @@ ("M" :> 77) @@ ("N" :> 78)
  @@ ("O" :> 79) @@ ("P" :> 80) @@ ("Q" :> 81) @@ ("R" :> 82) @@ ("S" :> 83)
  @@ ("T" :> 84) @@ ("U" :> 85) @@ ("V" :> 86) @@ ("W" :> 87) @@ ("X" :> 88)
  @@ ("Y" :> 89) @@ ("Z" :> 90) @@ ("_" :> 95) @@ ("a" :> 97) @@ ("b" :> 98)
  @@ ("c" :> 99) @@ ("d" :> 100) @@ ("e" :> 101) @@ ("f" :> 102) @@ ("g" :> 103)
  @@ ("h" :> 104) @@ ("i" :> 105) @@ ("j" :> 106) @@ ("k" :> 107) @@ ("l" :> 108)
  @@ ("m" :> 109) @@ ("n" :> 110) @@ ("o" :> 111) @@ ("p" :> 112) @@ ("q" :> 113)
  @@ ("r" :> 114) @@ ("s" :> 115) @@ ("t" :> 116) @@ ("u" :> 117) @@ ("v" :> 118)
  @@ ("w" :> 119) @@ ("x" :> 120) @@ ("y" :> 121) @@ ("z" :> 122)

\* chr(n)
chr(n) == CHOOSE c \in DOMAIN ord : ord[c] = n

RECURSIVE Str(_)
Str(cs) == IF cs = <<>> THEN "" ELSE cs[1] \o Str(Tail(cs))

\* str.lower(): A-Z become a-z, every other character stays
lower(cs) ==
  [i \in 1..Len(cs) |->
     IF ord[cs[i]] >= 65 /\ ord[cs[i]] <= 90 THEN chr(ord[cs[i]] + 32)
                                             ELSE cs[i]]

\* str.replace(old, new) for single characters
replace(cs, old, new) ==
  [i \in 1..Len(cs) |-> IF cs[i] = old THEN new ELSE cs[i]]

\* a < b on str: lexicographic by code point, a proper prefix is smaller
RECURSIVE str_lt(_, _)
str_lt(a, b) ==
  IF b = <<>> THEN FALSE
  ELSE IF a = <<>> THEN TRUE
  ELSE IF a[1] # b[1] THEN ord[a[1]] < ord[b[1]]
  ELSE str_lt(Tail(a), Tail(b))

\* sorted(list of str)
sorted(xs) == SortSeq(xs, str_lt)

\* needle in haystack
str_contains(haystack, needle) ==
  \E i \in 0..(Len(haystack) - Len(needle)) :
    SubSeq(haystack, i + 1, i + Len(needle)) = needle

----------------------------------------------------------------------------
(* resolve_machine_spec                                                    *)

UnsupportedLocationError == "Unsupported accelerator location"

\* mutant: the GPU region is also listed as a TPU region
tpu_regions_overlapping == {"europe-west4", "us-central1"}

tpu_regions == {"europe-west4"}

gpu_regions == {"us-central1"}

\* the MachineSpec named tuple
MachineSpec(mt, at, ac) ==
  [machine_type |-> mt, accelerator_type |-> at, accelerator_count |-> ac]

\* mutant: the region is classified before the test flag is looked at
resolve_machine_spec_region_first(location, use_test_spec) ==
  IF location \in tpu_regions
    THEN Return(MachineSpec("cloud-tpu", "TPU_V3", 64))
  ELSE IF location \in gpu_regions
    THEN Return(MachineSpec("a2-ultragpu-8g", "NVIDIA_A100_80GB", 8))
  ELSE IF use_test_spec
    THEN Return(MachineSpec("a2-highgpu-1g", "NVIDIA_TESLA_A100", 1))
  ELSE Raise(UnsupportedLocationError)

resolve_machine_spec(location, use_test_spec) ==
  IF use_test_spec
    THEN Return(MachineSpec("a2-highgpu-1g", "NVIDIA_TESLA_A100", 1))
  ELSE IF location \in tpu_regions
    THEN Return(MachineSpec("cloud-tpu", "TPU_V3", 64))
  ELSE IF location \in gpu_regions
    THEN Return(MachineSpec("a2-ultragpu-8g", "NVIDIA_A100_80GB", 8))
  ELSE Raise(UnsupportedLocationError)

----------------------------------------------------------------------------
(* get_default_bulk_inference_machine_specs                                *)

UnknownModelError == "large_model_reference must be one of"

InvalidOverrideError == "Accelerator type and count must both be set."

InvalidAcceleratorCountError == "accelerator_count must be at least 1."

TooManyAcceleratorsError(accelerator_type, limit) ==
  "Too many " \o accelerator_type \o " requested. Must be <= " \o limit \o "."

UnknownAcceleratorTypeError == "accelerator_type_override must be one of"

tpu_accelerator_types == {"TPU_V2", "TPU_V3"}

gpu_accelerator_types == {"NVIDIA_TESLA_A100", "NVIDIA_A100_80GB"}

valid_accelerator_types == gpu_accelerator_types \cup tpu_accelerator_types

\* mutant: the accelerator_count < 1 check is missing
_get_machine_type_no_count_check(accelerator_type, accelerator_count) ==
  IF accelerator_type \in tpu_accelerator_types THEN Return("cloud-tpu")
  ELSE IF accelerator_type = "NVIDIA_TESLA_A100" THEN
    IF accelerator_count = 1 THEN Return("a2-highgpu-1g")
    ELSE IF accelerator_count = 2 THEN Return("a2-highgpu-2g")
    ELSE IF accelerator_count <= 4 THEN Return("a2-highgpu-4g")
    ELSE IF accelerator_count <= 8 THEN Return("a2-highgpu-8g")
    ELSE IF accelerator_count <= 16 THEN Return("a2-megagpu-16g")
    ELSE Raise(TooManyAcceleratorsError(accelerator_type, "16"))
  ELSE IF accelerator_type = "NVIDIA_A100_80GB" THEN
    IF accelerator_count = 1 THEN Return("a2-ultragpu-1g")
    ELSE IF accelerator_count = 2 THEN Return("a2-ultragpu-2g")
    ELSE IF accelerator_count <= 4 THEN Return("a2-ultragpu-4g")
    ELSE IF accelerator_count <= 8 THEN Return("a2-ultragpu-8g")
    ELSE Raise(TooManyAcceleratorsError(accelerator_type, "8"))
  ELSE Raise(UnknownAcceleratorTypeError)

\* mutant: the 4-GPU bound of NVIDIA_TESLA_A100 is exclusive
_get_machine_type_exclusive_bound(accelerator_type, accelerator_count) ==
  IF accelerator_count < 1 THEN Raise(InvalidAcceleratorCountError)
  ELSE IF accelerator_type \in tpu_accelerator_types THEN Return("cloud-tpu")
  ELSE IF accelerator_type = "NVIDIA_TESLA_A100" THEN
    IF accelerator_count = 1 THEN Return("a2-highgpu-1g")
    ELSE IF accelerator_count = 2 THEN Return("a2-highgpu-2g")
    ELSE IF accelerator_count < 4 THEN Return("a2-highgpu-4g")
    ELSE IF accelerator_count <= 8 THEN Return("a2-highgpu-8g")
    ELSE IF accelerator_count <= 16 THEN Return("a2-megagpu-16g")
    ELSE Raise(TooManyAcceleratorsError(accelerator_type, "16"))
  ELSE IF accelerator_type = "NVIDIA_A100_80GB" THEN
    IF accelerator_count = 1 THEN Return("a2-ultragpu-1g")
    ELSE IF accelerator_count = 2 THEN Return("a2-ultragpu-2g")
    ELSE IF accelerator_count <= 4 THEN Return("a2-ultragpu-4g")
    ELSE IF accelerator_count <= 8 THEN Return("a2-ultragpu-8g")
    ELSE Raise(TooManyAcceleratorsError(accelerator_type, "8"))
  ELSE Raise(UnknownAcceleratorTypeError)

_get_machine_type(accelerator_type, accelerator_count) ==
  IF accelerator_count < 1 THEN Raise(InvalidAcceleratorCountError)
  ELSE IF accelerator_type \in tpu_accelerator_types THEN Return("cloud-tpu")
  ELSE IF accelerator_type = "NVIDIA_TESLA_A100" THEN
    IF accelerator_count = 1 THEN Return("a2-highgpu-1g")
    ELSE IF accelerator_count = 2 THEN Return("a2-highgpu-2g")
    ELSE IF accelerator_count <= 4 THEN Return("a2-highgpu-4g")
    ELSE IF accelerator_count <= 8 THEN Return("a2-highgpu-8g")
    ELSE IF accelerator_count <= 16 THEN Return("a2-megagpu-16g")
    ELSE Raise(TooManyAcceleratorsError(accelerator_type, "16"))
  ELSE IF accelerator_type = "NVIDIA_A100_80GB" THEN
    IF accelerator_count = 1 THEN Return("a2-ultragpu-1g")
    ELSE IF accelerator_count = 2 THEN Return("a2-ultragpu-2g")
    ELSE IF accelerator_count <= 4 THEN Return("a2-ultragpu-4g")
    ELSE IF accelerator_count <= 8 THEN Return("a2-ultragpu-8g")
    ELSE Raise(TooManyAcceleratorsError(accelerator_type, "8"))
  ELSE Raise(UnknownAcceleratorTypeError)

accepted_reference_models ==
  {"PALM_TINY", "GECKO", "OTTER", "BISON", "ELEPHANT",
   "T5_SMALL", "T5_LARGE", "T5_XL", "T5_XXL"}

reference_model_to_model_specs_gpu ==
  [m \in {"PALM_TINY", "GECKO", "T5_SMALL", "T5_LARGE", "T5_XL"} |->
     MachineSpec("a2-highgpu-1g", "NVIDIA_TESLA_A100", 1)]
  @@ [m \in {"OTTER", "T5_XXL"} |->
     MachineSpec("a2-highgpu-2g", "NVIDIA_TESLA_A100", 2)]
  @@ [m \in {"BISON", "ELEPHANT"} |->
     MachineSpec("a2-highgpu-8g", "NVIDIA_TESLA_A100", 8)]

\* mutant: the TPU default carries the pod size of resolve_machine_spec
tpu_default_machine_spec_64 == MachineSpec("cloud-tpu", "TPU_V3", 64)

\* the default when use_gpu_defaults is false
tpu_default_machine_spec == MachineSpec("cloud-tpu", "TPU_V3", 32)

\* mutant: the override pair is checked before the model
get_default_bulk_inference_machine_specs_overrides_first(large_model_reference, use_gpu_defaults, accelerator_type_override, accelerator_count_override) ==
  LET any == TruthyStr(accelerator_type_override)
               \/ TruthyInt(accelerator_count_override)
      all == TruthyStr(accelerator_type_override)
               /\ TruthyInt(accelerator_count_override)
  IN IF any /\ ~all THEN Raise(InvalidOverrideError)
     ELSE IF large_model_reference \notin accepted_reference_models
       THEN Raise(UnknownModelError)
     ELSE
       LET default_machine_spec ==
             IF use_gpu_defaults
               THEN reference_model_to_model_specs_gpu[large_model_reference]
               ELSE tpu_default_machine_spec
           accelerator_type ==
             IF any THEN accelerator_type_override[1]
                    ELSE default_machine_spec.accelerator_type
           accelerator_count ==
             IF any THEN accelerator_count_override[1]
                    ELSE default_machine_spec.accelerator_count
           machine_type ==
             _get_machine_type(accelerator_type, accelerator_count)
       IN IF machine_type.raised THEN machine_type
          ELSE Return(MachineSpec(machine_type.value, accelerator_type,
                                  accelerator_count))

get_default_bulk_inference_machine_specs(large_model_reference, use_gpu_defaults, accelerator_type_override, accelerator_count_override) ==
  IF large_model_reference \notin accepted_reference_models
    THEN Raise(UnknownModelError)
  ELSE
    LET default_machine_spec ==
          IF use_gpu_defaults
            THEN reference_model_to_model_specs_gpu[large_model_reference]
            ELSE tpu_default_machine_spec
        any == TruthyStr(accelerator_type_override)
                 \/ TruthyInt(accelerator_count_override)
        all == TruthyStr(accelerator_type_override)
                 /\ TruthyInt(accelerator_count_override)
    IN IF any /\ ~all THEN Raise(InvalidOverrideError)
       ELSE
         LET accelerator_type ==
               IF any THEN accelerator_type_override[1]
                      ELSE default_machine_spec.accelerator_type
             accelerator_count ==
               IF any THEN accelerator_count_override[1]
                      ELSE default_machine_spec.accelerator_count
             machine_type ==
               _get_machine_type(accelerator_type, accelerator_count)
         IN IF machine_type.raised THEN machine_type
            ELSE Return(MachineSpec(machine_type.value, accelerator_type,
                                    accelerator_count))

----------------------------------------------------------------------------
(* resolve_image_uri                                                       *)

cpu_only_images == {"text_importer", "text_comparison_importer"}

backup_images ==
  {"sft", "reward_model", "reinforcer", "infer",
   "text_importer", "text_comparison_importer"}

\* mutant: the TPU check comes before the CPU-only check
accelerator_postfix_tpu_first(image_name, accelerator_type, accelerator_count) ==
  IF accelerator_type = "TPU_V3" THEN "_tpu"
  ELSE IF image_name \in cpu_only_images THEN ""
  ELSE IF accelerator_type = "NVIDIA_A100_80GB" /\ accelerator_count = 8
    THEN "_gpu_test"
  ELSE "_gpu"

\* the accelerator suffix
accelerator_postfix(image_name, accelerator_type, accelerator_count) ==
  IF image_name \in cpu_only_images THEN ""
  ELSE IF accelerator_type = "TPU_V3" THEN "_tpu"
  ELSE IF accelerator_type = "NVIDIA_A100_80GB" /\ accelerator_count = 8
    THEN "_gpu_test"
  ELSE "_gpu"

\* mutant: the _gpu_test exemption is missing
backup_postfix_no_exemption(image_name, postfix) ==
  IF image_name \in backup_images
    THEN postfix \o "_backup"
    ELSE postfix

\* the backup suffix: accelerator_postfix += '_backup'
backup_postfix(image_name, postfix) ==
  IF image_name \in backup_images /\ postfix # "_gpu_test"
    THEN postfix \o "_backup"
    ELSE postfix

resolve_image_uri(image_name, project, location, artifact_registry, image_name_prefix, tag, accelerator_type, accelerator_count) ==
  LET postfix ==
        backup_postfix(image_name,
          accelerator_postfix(image_name, accelerator_type,
                              accelerator_count))
  IN Return(location \o "-docker.pkg.dev/" \o project \o "/"
              \o artifact_registry \o "/" \o image_name_prefix
              \o image_name \o postfix \o ":" \o tag)

----------------------------------------------------------------------------
(* resolve_reference_model_metadata                                        *)

UnknownReferenceModelError == "Unknown reference model"

\* the ReferenceModelMetadata named tuple
reference_model_metadata(lmr, rmp, rwr, rwp, sup) ==
  [large_model_reference |-> lmr, reference_model_path |-> rmp,
   reward_model_reference |-> rwr, reward_model_path |-> rwp,
   is_supported |-> sup]

\* mutant: the reward path of llama-2-7b-chat is derived from its own name
reference_models_rederived ==
  <<
     <<<<"t", "5", "-", "s", "m", "a", "l", "l">>,
       reference_model_metadata(
         <<"T", "5", "_", "S", "M", "A", "L", "L">>,
         "gs://t5-data/pretrained_models/t5x/flan_t5_small/",
         <<"T", "5", "_", "S", "M", "A", "L", "L">>,
         "gs://t5-data/pretrained_models/t5x/t5_1_1_small",
         TRUE)>>,
     <<<<"t", "5", "-", "l", "a", "r", "g", "e">>,
       reference_model_metadata(
         <<"T", "5", "_", "L", "A", "R", "G", "E">>,
         "gs://t5-data/pretrained_models/t5x/flan_t5_large/",
         <<"T", "5", "_", "L", "A", "R", "G", "E">>,
         "gs://t5-data/pretrained_models/t5x/t5_1_1_large",
         TRUE)>>,
     <<<<"t", "5", "-", "x", "l">>,
       reference_model_metadata(
         <<"T", "5", "_", "X", "L">>,
         "gs://t5-data/pretrained_models/t5x/flan_t5_xl/",
         <<"T", "5", "_", "X", "L">>,
         "gs://t5-data/pretrained_models/t5x/t5_1_1_xl",
         TRUE)>>,
     <<<<"t", "5", "-", "x", "x", "l">>,
       reference_model_metadata(
         <<"T", "5", "_", "X", "X", "L">>,
         "gs://t5-data/pretrained_models/t5x/flan_t5_xxl/",
         <<"T", "5", "_", "X", "L">>,
         "gs://t5-data/pretrained_models/t5x/t5_1_1_xl",
         TRUE)>>,
     <<<<"p", "a", "l", "m", "-", "t", "i", "n", "y">>,
       reference_model_metadata(
         <<"P", "A", "L", "M", "_", "T", "I", "N", "Y">>,
         "gs://vertex-rlhf-restricted/pretrained_models/palm/t5x_palm_tiny/",
         <<"P", "A", "L", "M", "_", "T", "I", "N", "Y">>,
         "gs://vertex-rlhf-restricted/pretrained_models/palm/t5x_palm_tiny/",
         FALSE)>>,
     <<<<"g", "e", "c", "k", "o">>,
       reference_model_metadata(
         <<"G", "E", "C", "K", "O">>,
         "gs://vertex-rlhf-restricted/pretrained_models/palm/t5x_gecko/",
         <<"G", "E", "C", "K", "O">>,
         "gs://vertex-rlhf-restricted/pretrained_models/palm/t5x_gecko_pretrain/",
         FALSE)>>,
     <<<<"o", "t", "t", "e", "r">>,
       reference_model_metadata(
         <<"O", "T", "T", "E", "R">>,
         "gs://vertex-rlhf-restricted/pretrained_models/palm/t5x_otter/",
         <<"O", "T", "T", "E", "R">>,
         "gs://vertex-rlhf-restricted/pretrained_models/palm/t5x_otter_pretrain/",
         FALSE)>>,
     <<<<"b", "i", "s", "o", "n">>,
       reference_model_metadata(
         <<"B", "I", "S", "O", "N">>,
         "gs://vertex-rlhf-restricted/pretrained_models/palm/t5x_bison/",
         <<"O", "T", "T", "E", "R">>,
         "gs://vertex-rlhf-restricted/pretrained_models/palm/t5x_otter_pretrain/",
         FALSE)>>,
     <<<<"t", "e", "x", "t", "-", "b", "i", "s", "o", "n", "@", "0", "0", "1">>,
       reference_model_metadata(
         <<"B", "I", "S", "O", "N">>,
         "gs://vertex-rlhf-restricted/pretrained_models/palm/t5x_bison/",
         <<"O", "T", "T", "E", "R">>,
         "gs://vertex-rlhf-restricted/pretrained_models/palm/t5x_otter_pretrain/",
         TRUE)>>,
     <<<<"c", "h", "a", "t", "-", "b", "i", "s", "o", "n", "@", "0", "0", "1">>,
       reference_model_metadata(
         <<"B", "I", "S", "O", "N">>,
         "gs://vertex-rlhf-restricted/pretrained_models/palm/t5x_bison/",
         <<"O", "T", "T", "E", "R">>,
         "gs://vertex-rlhf-restricted/pretrained_models/palm/t5x_otter_pretrain/",
         TRUE)>>,
     <<<<"e", "l", "e", "p", "h", "a", "n", "t">>,
       reference_model_metadata(
         <<"E", "L", "E", "P", "H", "A", "N", "T">>,
         "gs://vertex-rlhf-restricted/pretrained_models/palm/t5x_elephant/",
         <<"O", "T", "T", "E", "R">>,
         "gs://vertex-rlhf-restricted/pretrained_models/palm/t5x_otter_pretrain/",
         FALSE)>>,
     <<<<"l", "l", "a", "m", "a", "-", "2", "-", "7", "b">>,
       reference_model_metadata(
         <<"L", "L", "A", "M", "A", "_", "2", "_", "7", "B">>,
         "gs://vertex-rlhf-restricted/pretrained_models/llama/t5x_llama_2_7b/",
         <<"L", "L", "A", "M", "A", "_", "2", "_", "7", "B">>,
         "gs://vertex-rlhf-restricted/pretrained_models/llama/t5x_llama_2_7b/",
         TRUE)>>,
     <<<<"l", "l", "a", "m", "a", "-", "2", "-", "1", "3", "b">>,
       reference_model_metadata(
         <<"L", "L", "A", "M", "A", "_", "2", "_", "1", "3", "B">>,
         "gs://vertex-rlhf-restricted/pretrained_models/llama/t5x_llama_2_13b/",
         <<"L", "L", "A", "M", "A", "_", "2", "_", "1", "3", "B">>,
         "gs://vertex-rlhf-restricted/pretrained_models/llama/t5x_llama_2_13b/",
         TRUE)>>,
     <<<<"l", "l", "a", "m", "a", "-", "2", "-", "7", "b", "-", "c", "h", "a", "t">>,
       reference_model_metadata(
         <<"L", "L", "A", "M", "A", "_", "2", "_", "7", "B", "_", "C", "H", "A", "T">>,
         "gs://vertex-rlhf-restricted/pretrained_models/llama/t5x_llama_2_7b_chat/",
         <<"L", "L", "A", "M", "A", "_", "2", "_", "7", "B">>,
         "gs://vertex-rlhf-restricted/pretrained_models/llama/t5x_llama_2_7b_chat/",
         TRUE)>>,
     <<<<"l", "l", "a", "m", "a", "-", "2", "-", "1", "3", "b", "-", "c", "h", "a", "t">>,
       reference_model_metadata(
         <<"L", "L", "A", "M", "A", "_", "2", "_", "1", "3", "B", "_", "C", "H", "A", "T">>,
         "gs://vertex-rlhf-restricted/pretrained_models/llama/t5x_llama_2_13b_chat/",
         <<"L", "L", "A", "M", "A", "_", "2", "_", "1", "3", "B">>,
         "gs://vertex-rlhf-restricted/pretrained_models/llama/t5x_llama_2_13b/",
         TRUE)>>
  >>

\* the registry, a dict: its (key, value) items in insertion order
reference_models ==
  <<
     <<<<"t", "5", "-", "s", "m", "a", "l", "l">>,
       reference_model_metadata(
         <<"T", "5", "_", "S", "M", "A", "L", "L">>,
         "gs://t5-data/pretrained_models/t5x/flan_t5_small/",
         <<"T", "5", "_", "S", "M", "A", "L", "L">>,
         "gs://t5-data/pretrained_models/t5x/t5_1_1_small",
         TRUE)>>,
     <<<<"t", "5", "-", "l", "a", "r", "g", "e">>,
       reference_model_metadata(
         <<"T", "5", "_", "L", "A", "R", "G", "E">>,
         "gs://t5-data/pretrained_models/t5x/flan_t5_large/",
         <<"T", "5", "_", "L", "A", "R", "G", "E">>,
         "gs://t5-data/pretrained_models/t5x/t5_1_1_large",
         TRUE)>>,
     <<<<"t", "5", "-", "x", "l">>,
       reference_model_metadata(
         <<"T", "5", "_", "X", "L">>,
         "gs://t5-data/pretrained_models/t5x/flan_t5_xl/",
         <<"T", "5", "_", "X", "L">>,
         "gs://t5-data/pretrained_models/t5x/t5_1_1_xl",
         TRUE)>>,
     <<<<"t", "5", "-", "x", "x", "l">>,
       reference_model_metadata(
         <<"T", "5", "_", "X", "X", "L">>,
         "gs://t5-data/pretrained_models/t5x/flan_t5_xxl/",
         <<"T", "5", "_", "X", "L">>,
         "gs://t5-data/pretrained_models/t5x/t5_1_1_xl",
         TRUE)>>,
     <<<<"p", "a", "l", "m", "-", "t", "i", "n", "y">>,
       reference_model_metadata(
         <<"P", "A", "L", "M", "_", "T", "I", "N", "Y">>,
         "gs://vertex-rlhf-restricted/pretrained_models/palm/t5x_palm_tiny/",
         <<"P", "A", "L", "M", "_", "T", "I", "N", "Y">>,
         "gs://vertex-rlhf-restricted/pretrained_models/palm/t5x_palm_tiny/",
         FALSE)>>,
     <<<<"g", "e", "c", "k", "o">>,
       reference_model_metadata(
         <<"G", "E", "C", "K", "O">>,
         "gs://vertex-rlhf-restricted/pretrained_models/palm/t5x_gecko/",
         <<"G", "E", "C", "K", "O">>,
         "gs://vertex-rlhf-restricted/pretrained_models/palm/t5x_gecko_pretrain/",
         FALSE)>>,
     <<<<"o", "t", "t", "e", "r">>,
       reference_model_metadata(
         <<"O", "T", "T", "E", "R">>,
         "gs://vertex-rlhf-restricted/pretrained_models/palm/t5x_otter/",
         <<"O", "T", "T", "E", "R">>,
         "gs://vertex-rlhf-restricted/pretrained_models/palm/t5x_otter_pretrain/",
         FALSE)>>,
     <<<<"b", "i", "s", "o", "n">>,
       reference_model_metadata(
         <<"B", "I", "S", "O", "N">>,
         "gs://vertex-rlhf-restricted/pretrained_models/palm/t5x_bison/",
         <<"O", "T", "T", "E", "R">>,
         "gs://vertex-rlhf-restricted/pretrained_models/palm/t5x_otter_pretrain/",
         FALSE)>>,
     <<<<"t", "e", "x", "t", "-", "b", "i", "s", "o", "n", "@", "0", "0", "1">>,
       reference_model_metadata(
         <<"B", "I", "S", "O", "N">>,
         "gs://vertex-rlhf-restricted/pretrained_models/palm/t5x_bison/",
         <<"O", "T", "T", "E", "R">>,
         "gs://vertex-rlhf-restricted/pretrained_models/palm/t5x_otter_pretrain/",
         TRUE)>>,
     <<<<"c", "h", "a", "t", "-", "b", "i", "s", "o", "n", "@", "0", "0", "1">>,
       reference_model_metadata(
         <<"B", "I", "S", "O", "N">>,
         "gs://vertex-rlhf-restricted/pretrained_models/palm/t5x_bison/",
         <<"O", "T", "T", "E", "R">>,
         "gs://vertex-rlhf-restricted/pretrained_models/palm/t5x_otter_pretrain/",
         TRUE)>>,
     <<<<"e", "l", "e", "p", "h", "a", "n", "t">>,
       reference_model_metadata(
         <<"E", "L", "E", "P", "H", "A", "N", "T">>,
         "gs://vertex-rlhf-restricted/pretrained_models/palm/t5x_elephant/",
         <<"O", "T", "T", "E", "R">>,
         "gs://vertex-rlhf-restricted/pretrained_models/palm/t5x_otter_pretrain/",
         FALSE)>>,
     <<<<"l", "l", "a", "m", "a", "-", "2", "-", "7", "b">>,
       reference_model_metadata(
         <<"L", "L", "A", "M", "A", "_", "2", "_", "7", "B">>,
         "gs://vertex-rlhf-restricted/pretrained_models/llama/t5x_llama_2_7b/",
         <<"L", "L", "A", "M", "A", "_", "2", "_", "7", "B">>,
         "gs://vertex-rlhf-restricted/pretrained_models/llama/t5x_llama_2_7b/",
         TRUE)>>,
     <<<<"l", "l", "a", "m", "a", "-", "2", "-", "1", "3", "b">>,
       reference_model_metadata(
         <<"L", "L", "A", "M", "A", "_", "2", "_", "1", "3", "B">>,
         "gs://vertex-rlhf-restricted/pretrained_models/llama/t5x_llama_2_13b/",
         <<"L", "L", "A", "M", "A", "_", "2", "_", "1", "3", "B">>,
         "gs://vertex-rlhf-restricted/pretrained_models/llama/t5x_llama_2_13b/",
         TRUE)>>,
     <<<<"l", "l", "a", "m", "a", "-", "2", "-", "7", "b", "-", "c", "h", "a", "t">>,
       reference_model_metadata(
         <<"L", "L", "A", "M", "A", "_", "2", "_", "7", "B", "_", "C", "H", "A", "T">>,
         "gs://vertex-rlhf-restricted/pretrained_models/llama/t5x_llama_2_7b_chat/",
         <<"L", "L", "A", "M", "A", "_", "2", "_", "7", "B">>,
         "gs://vertex-rlhf-restricted/pretrained_models/llama/t5x_llama_2_7b/",
         TRUE)>>,
     <<<<"l", "l", "a", "m", "a", "-", "2", "-", "1", "3", "b", "-", "c", "h", "a", "t">>,
       reference_model_metadata(
         <<"L", "L", "A", "M", "A", "_", "2", "_", "1", "3", "B", "_", "C", "H", "A", "T">>,
         "gs://vertex-rlhf-restricted/pretrained_models/llama/t5x_llama_2_13b_chat/",
         <<"L", "L", "A", "M", "A", "_", "2", "_", "1", "3", "B">>,
         "gs://vertex-rlhf-restricted/pretrained_models/llama/t5x_llama_2_13b/",
         TRUE)>>
  >>

\* k in d
dict_has(d, k) == \E i \in 1..Len(d) : d[i][1] = k

\* d[k]
dict_get(d, k) == d[CHOOSE i \in 1..Len(d) : d[i][1] = k][2]

\* mutant: every key is offered, supported or not
supported_models_unfiltered ==
  [i \in 1..Len(reference_models) |-> reference_models[i][1]]

\* [k for k, v in reference_models.items() if v.is_supported]
supported_models ==
  LET kept == SelectSeq(reference_models, LAMBDA item : item[2].is_supported)
  IN [i \in 1..Len(kept) |-> kept[i][1]]

\* large_model_reference.lower().replace('_', '-')
reference_model_key(large_model_reference) ==
  replace(lower(large_model_reference), "_", "-")

\* mutant: an entry that is not is_supported is treated as a miss
resolve_reference_model_metadata_supported_only(large_model_reference, reference_model_path) ==
  IF \/ ~dict_has(reference_models, reference_model_key(large_model_reference))
     \/ ~dict_get(reference_models,
                  reference_model_key(large_model_reference)).is_supported
    THEN [raised |-> TRUE, error |-> UnknownReferenceModelError,
          large_model_reference |-> large_model_reference,
          must_be_one_of |-> sorted(supported_models)]
  ELSE
    LET reference_model ==
          dict_get(reference_models,
                   reference_model_key(large_model_reference))
    IN Return([large_model_reference |->
                 reference_model.large_model_reference,
               reference_model_path |->
                 IF TruthyStr(reference_model_path)
                   THEN reference_model_path[1]
                   ELSE reference_model.reference_model_path,
               reward_model_reference |->
                 reference_model.reward_model_reference,
               reward_model_path |-> reference_model.reward_model_path])

resolve_reference_model_metadata(large_model_reference, reference_model_path) ==
  IF ~dict_has(reference_models, reference_model_key(large_model_reference))
    THEN [raised |-> TRUE, error |-> UnknownReferenceModelError,
          large_model_reference |-> large_model_reference,
          must_be_one_of |-> sorted(supported_models)]
  ELSE
    LET reference_model ==
          dict_get(reference_models,
                   reference_model_key(large_model_reference))
    IN Return([large_model_reference |->
                 reference_model.large_model_reference,
               reference_model_path |->
                 IF TruthyStr(reference_model_path)
                   THEN reference_model_path[1]
                   ELSE reference_model.reference_model_path,
               reward_model_reference |->
                 reference_model.reward_model_reference,
               reward_model_path |-> reference_model.reward_model_path])

----------------------------------------------------------------------------
(* generate_default_instruction                                            *)

UnsupportedTaskError == "Task not recognized"

\* str(n) of an int, as an f-string formats it
RECURSIVE nat_str(_)
nat_str(n) ==
  LET digit == <<"0", "1", "2", "3", "4", "5", "6", "7", "8", "9">>
  IN IF n < 10 THEN digit[n + 1]
     ELSE nat_str(n \div 10) \o digit[(n % 10) + 1]

int_str(n) == IF n < 0 THEN "-" \o nat_str(0 - n) ELSE nat_str(n)

\* mutant: the task is validated before the override is looked at
generate_default_instruction_task_first(task, target_sequence_length, instruction_override) ==
  LET lowered == Str(lower(task))
  IN IF lowered \notin {"summarization", "question_answer"}
       THEN [raised |-> TRUE, error |-> UnsupportedTaskError,
             task |-> lowered]
     ELSE IF instruction_override # "" THEN Return(instruction_override)
     ELSE IF lowered = "summarization"
       THEN Return("Summarize in less than "
                     \o int_str(target_sequence_length) \o " words.")
     ELSE Return("Answer the question in less than "
                   \o int_str(target_sequence_length) \o " words.")

generate_default_instruction(task, target_sequence_length, instruction_override) ==
  IF instruction_override # "" THEN Return(instruction_override)
  ELSE
    LET lowered == Str(lower(task))
    IN IF lowered = "summarization"
         THEN Return("Summarize in less than "
                       \o int_str(target_sequence_length) \o " words.")
       ELSE IF lowered = "question_answer"
         THEN Return("Answer the question in less than "
                       \o int_str(target_sequence_length) \o " words.")
       ELSE [raised |-> TRUE, error |-> UnsupportedTaskError,
             task |-> lowered]

----------------------------------------------------------------------------
(* resolve_instruction                                                     *)

\* mutant: 'chat' is looked for without lower-casing the reference
resolve_instruction_case_sensitive(large_model_reference, instruction) ==
  LET given == IF TruthyStr(instruction) THEN instruction[1] ELSE ""
  IN IF ~str_contains(large_model_reference, <<"c", "h", "a", "t">>)
       THEN Return(given)
       ELSE Return("")

resolve_instruction(large_model_reference, instruction) ==
  LET given == IF TruthyStr(instruction) THEN instruction[1] ELSE ""
  IN IF ~str_contains(lower(large_model_reference), <<"c", "h", "a", "t">>)
       THEN Return(given)
       ELSE Return("")

----------------------------------------------------------------------------
(* resolve_model_display_name                                              *)

\* datetime.datetime.now().strftime('%Y-%m-%d-%H-%M-%S'), the clock being
\* t seconds (t < 60) past 2023-10-10 11:07:00
strftime(t) ==
  "2023-10-10-11-07-" \o (IF t < 10 THEN "0" ELSE "") \o int_str(t)

\* mutant: the timestamp is appended to a user-provided name too
resolve_model_display_name_always_stamped(large_model_reference, model_display_name) ==
  Return((IF TruthyStr(model_display_name)
            THEN model_display_name[1]
            ELSE Str(lower(large_model_reference)))
         \o "-" \o strftime(now))

resolve_model_display_name(large_model_reference, model_display_name) ==
  Return(IF TruthyStr(model_display_name)
           THEN model_display_name[1]
           ELSE Str(lower(large_model_reference)) \o "-" \o strftime(now))

----------------------------------------------------------------------------
(* get_model (container/v1/model/get_model: launcher and remote_runner)    *)

RESOURCE_TYPE == "Model"

\* None + '-aiplatform.googleapis.com'
NoneTypeConcatError == "unsupported operand type(s) for +: 'NoneType' and 'str'"

ModelResourceNameFormatError == "Model resource name must be in the format"

\* an exception of client.get_model
GetModelRequestError == "get_model request failed"

\* '{x}' in an f-string for an Optional[str]
format_str(o) == IF o = None THEN "None" ELSE o[1]

\* location + '-aiplatform.googleapis.com', for a str location
api_endpoint(location) == location[1] \o "-aiplatform.googleapis.com"

vertex_uri_prefix(location) == "https://" \o api_endpoint(location) \o "/v1/"

model_resource_name(project, location, model_name) ==
  "projects/" \o format_str(project) \o "/locations/"
    \o format_str(location) \o "/models/" \o model_name

\* name.split('@', 1)[0]
RECURSIVE before_at(_)
before_at(name) ==
  IF name = <<>> \/ name[1] = "@" THEN <<>>
  ELSE <<name[1]>> \o before_at(Tail(name))

\* f'{resp_model_name_without_version}@{get_model_response.version_id}'
versioned_resource_name(response) ==
  Str(before_at(response.name)) \o "@" \o response.version_id

----------------------------------------------------------------------------
(* Inputs callers are drawn from.                                          *)

MinCount == 0 - 2

Locations ==
  {"europe-west4", "us-central1", "us-east1", "EUROPE-WEST4", ""}

ModelReferences ==
  accepted_reference_models \cup {"bison", "LLAMA_2_7B", ""}

AcceleratorTypes ==
  valid_accelerator_types \cup {"NVIDIA_TESLA_V100", "tpu_v3", ""}

Counts == MinCount..MaxCount

OptionalTypes == {None} \cup {Some(t) : t \in AcceleratorTypes}

OptionalCounts == {None} \cup {Some(c) : c \in Counts}

ImageNames ==
  backup_images \cup {"bulk_inferrer", "refined_image", ""}

ImageAcceleratorTypes == AcceleratorTypes

Projects == {"vertex-ai-restricted", ""}

Registries == {"rlhf"}

ImagePrefixes == {"rlhf_", ""}

Tags == {"20231010_1107_RC00", "latest"}

\* model identifiers: the registry keys, their upper-case and mixed
\* spellings, and identifiers that are no key under any spelling
ReferenceModelIds ==
  {<<"t", "5", "-", "s", "m", "a", "l", "l">>,
   <<"t", "5", "-", "l", "a", "r", "g", "e">>,
   <<"t", "5", "-", "x", "l">>,
   <<"t", "5", "-", "x", "x", "l">>,
   <<"p", "a", "l", "m", "-", "t", "i", "n", "y">>,
   <<"g", "e", "c", "k", "o">>,
   <<"o", "t", "t", "e", "r">>,
   <<"b", "i", "s", "o", "n">>,
   <<"t", "e", "x", "t", "-", "b", "i", "s", "o", "n", "@", "0", "0", "1">>,
   <<"c", "h", "a", "t", "-", "b", "i", "s", "o", "n", "@", "0", "0", "1">>,
   <<"e", "l", "e", "p", "h", "a", "n", "t">>,
   <<"l", "l", "a", "m", "a", "-", "2", "-", "7", "b">>,
   <<"l", "l", "a", "m", "a", "-", "2", "-", "1", "3", "b">>,
   <<"l", "l", "a", "m", "a", "-", "2", "-", "7", "b", "-", "c", "h", "a", "t">>,
   <<"l", "l", "a", "m", "a", "-", "2", "-", "1", "3", "b", "-", "c", "h", "a", "t">>,
   <<"B", "I", "S", "O", "N">>,
   <<"E", "L", "E", "P", "H", "A", "N", "T">>,
   <<"G", "E", "C", "K", "O">>,
   <<"L", "L", "A", "M", "A", "_", "2", "_", "1", "3", "B">>,
   <<"L", "L", "A", "M", "A", "_", "2", "_", "1", "3", "B", "_", "C", "H", "A", "T">>,
   <<"L", "L", "A", "M", "A", "_", "2", "_", "7", "B">>,
   <<"L", "L", "A", "M", "A", "_", "2", "_", "7", "B", "_", "C", "H", "A", "T">>,
   <<"O", "T", "T", "E", "R">>,
   <<"P", "A", "L", "M", "_", "T", "I", "N", "Y">>,
   <<"T", "5", "_", "L", "A", "R", "G", "E">>,
   <<"T", "5", "_", "S", "M", "A", "L", "L">>,
   <<"T", "5", "_", "X", "L">>,
   <<"T", "5", "_", "X", "X", "L">>,
   <<"T", "E", "X", "T", "_", "B", "I", "S", "O", "N", "@", "0", "0", "1">>,
   <<"C", "h", "a", "t", "-", "B", "i", "s", "o", "n", "@", "0", "0", "1">>,
   <<"T", "5", "-", "s", "m", "a", "l", "l">>,
   <<"L", "l", "a", "m", "a", "_", "2", "-", "7", "B", "_", "c", "h", "a", "t">>,
   <<>>,
   <<"t", "5">>,
   <<"t", "e", "x", "t", "-", "b", "i", "s", "o", "n">>,
   <<"t", "e", "x", "t", "-", "b", "i", "s", "o", "n", "@", "0", "0", "2">>,
   <<"t", "5", " ", "s", "m", "a", "l", "l">>,
   <<"T", "5", "_", "_", "S", "M", "A", "L", "L">>,
   <<"l", "l", "a", "m", "a", "-", "2", "-", "7", "0", "b">>,
   <<"L", "L", "A", "M", "A", ".", "2", ".", "7", "B">>}

ReferenceModelPaths ==
  {None, Some(""), Some("gs://my-bucket/tuned_bison/")}

Tasks ==
  {<<"s", "u", "m", "m", "a", "r", "i", "z", "a", "t", "i", "o", "n">>,
   <<"S", "u", "m", "m", "a", "r", "i", "z", "a", "t", "i", "o", "n">>,
   <<"S", "U", "M", "M", "A", "R", "I", "Z", "A", "T", "I", "O", "N">>,
   <<"q", "u", "e", "s", "t", "i", "o", "n", "_", "a", "n", "s", "w", "e", "r">>,
   <<"Q", "U", "E", "S", "T", "I", "O", "N", "_", "A", "N", "S", "W", "E", "R">>,
   <<"Q", "u", "e", "s", "t", "i", "o", "n", "_", "A", "n", "s", "w", "e", "r">>,
   <<"q", "u", "e", "s", "t", "i", "o", "n", "-", "a", "n", "s", "w", "e", "r">>,
   <<"s", "u", "m", "m", "a", "r", "i", "z", "e">>,
   <<"q", "a">>,
   <<>>,
   <<"s", "u", "m", "m", "a", "r", "i", "z", "a", "t", "i", "o", "n", " ">>}

TargetSequenceLengths == {0 - 1, 0, 7, 64, 128, 1000}

InstructionOverrides == {"", " ", "Be terse"}

InstructionModelReferences ==
  {<<"c", "h", "a", "t", "-", "b", "i", "s", "o", "n", "@", "0", "0", "1">>,
   <<"L", "L", "A", "M", "A", "_", "2", "_", "7", "B", "_", "C", "H", "A", "T">>,
   <<"l", "l", "a", "m", "a", "-", "2", "-", "1", "3", "b", "-", "c", "h", "a", "t">>,
   <<"B", "I", "S", "O", "N">>,
   <<"t", "e", "x", "t", "-", "b", "i", "s", "o", "n", "@", "0", "0", "1">>,
   <<"C", "h", "a", "t">>,
   <<"x", "c", "H", "a", "T", "x">>,
   <<"c", "h", "a", "-", "t">>,
   <<"c", "_", "h", "a", "t">>,
   <<"h", "a", "t", "c", "h">>,
   <<"C", "H", "A">>,
   <<>>}

Instructions == {None, Some(""), Some("Be terse")}

\* --project and --location default to None in the launcher
GetModelProjects == {None, Some(""), Some("my-project")}

GetModelLocations == {None, Some(""), Some("us-central1")}

GetModelNames == {"456", "456@1"}

\* what the model service may answer
GetModelResponses ==
  {[name |-> n, version_id |-> v] :
     n \in {<<"p", "r", "o", "j", "e", "c", "t", "s", "/", "7", "/", "l", "o", "c", "a", "t", "i", "o", "n", "s", "/", "u", "s", "/", "m", "o", "d", "e", "l", "s", "/", "4", "5", "6">>,
            <<"p", "r", "o", "j", "e", "c", "t", "s", "/", "7", "/", "l", "o", "c", "a", "t", "i", "o", "n", "s", "/", "u", "s", "/", "m", "o", "d", "e", "l", "s", "/", "4", "5", "6", "@", "1">>},
     v \in {"1", "2"}}

DisplayModelReferences ==
  {<<"B", "I", "S", "O", "N">>,
   <<"T", "5", "_", "S", "M", "A", "L", "L">>,
   <<"l", "l", "a", "m", "a", "-", "2", "-", "7", "b">>,
   <<>>}

ModelDisplayNames == {None, Some(""), Some("my-tuned-model")}

\* nothing is remembered yet
NoMemo == [set |-> FALSE]

\* get_model has not touched anything yet
NoEffects ==
  [request_sent |-> FALSE, requested_name |-> "",
   response_received |-> FALSE, response |-> None,
   artifact_updated |-> FALSE, artifact_uri |-> "",
   gcp_resources_written |-> FALSE, gcp_resources |-> ""]

----------------------------------------------------------------------------
(* The calls: a caller has picked a resolver and its arguments (Init), and *)
(* the resolver runs once to completion.                                   *)

InitResolveMachineSpec ==
  /\ op = "resolve_machine_spec"
  /\ \E location \in Locations, use_test_spec \in BOOLEAN :
       args = [location |-> location, use_test_spec |-> use_test_spec]

InitGetDefaultBulkInferenceMachineSpecs ==
  /\ op = "get_default_bulk_inference_machine_specs"
  /\ \E large_model_reference \in ModelReferences,
        use_gpu_defaults \in BOOLEAN,
        accelerator_type_override \in OptionalTypes,
        accelerator_count_override \in OptionalCounts :
       args = [large_model_reference |-> large_model_reference,
               use_gpu_defaults |-> use_gpu_defaults,
               accelerator_type_override |-> accelerator_type_override,
               accelerator_count_override |-> accelerator_count_override]

InitResolveImageUri ==
  /\ op = "resolve_image_uri"
  /\ \E image_name \in ImageNames, project \in Projects,
        location \in Locations, artifact_registry \in Registries,
        image_name_prefix \in ImagePrefixes, tag \in Tags,
        accelerator_type \in ImageAcceleratorTypes,
        accelerator_count \in Counts :
       args = [image_name |-> image_name, project |-> project,
               location |-> location,
               artifact_registry |-> artifact_registry,
               image_name_prefix |-> image_name_prefix, tag |-> tag,
               accelerator_type |-> accelerator_type,
               accelerator_count |-> accelerator_count]

InitResolveReferenceModelMetadata ==
  /\ op = "resolve_reference_model_metadata"
  /\ \E large_model_reference \in ReferenceModelIds,
        reference_model_path \in ReferenceModelPaths :
       args = [large_model_reference |-> large_model_reference,
               reference_model_path |-> reference_model_path]

InitGenerateDefaultInstruction ==
  /\ op = "generate_default_instruction"
  /\ \E task \in Tasks, target_sequence_length \in TargetSequenceLengths,
        instruction_override \in InstructionOverrides :
       args = [task |-> task,
               target_sequence_length |-> target_sequence_length,
               instruction_override |-> instruction_override]

InitResolveInstruction ==
  /\ op = "resolve_instruction"
  /\ \E large_model_reference \in InstructionModelReferences,
        instruction \in Instructions :
       args = [large_model_reference |-> large_model_reference,
               instruction |-> instruction]

InitResolveModelDisplayName ==
  /\ op = "resolve_model_display_name"
  /\ \E large_model_reference \in DisplayModelReferences,
        model_display_name \in ModelDisplayNames :
       args = [large_model_reference |-> large_model_reference,
               model_display_name |-> model_display_name]

InitGetModel ==
  /\ op = "get_model"
  /\ \E project \in GetModelProjects, location \in GetModelLocations,
        model_name \in GetModelNames :
       args = [executor_input |-> "executor_input.json",
               gcp_resources |-> "/gcs/out/gcp_resources",
               model_name |-> model_name,
               project |-> project, location |-> location]

Init ==
  /\ pc = "call"
  /\ result = <<>>
  /\ now = 0
  /\ memo = NoMemo
  /\ world = NoEffects
  /\ \/ InitResolveMachineSpec
     \/ InitGetDefaultBulkInferenceMachineSpecs
     \/ InitResolveImageUri
     \/ InitResolveReferenceModelMetadata
     \/ InitGenerateDefaultInstruction
     \/ InitResolveInstruction
     \/ InitResolveModelDisplayName
     \/ InitGetModel

RunResolveMachineSpec ==
  /\ pc = "call"
  /\ op = "resolve_machine_spec"
  /\ result' = resolve_machine_spec(args.location, args.use_test_spec)
  /\ pc' = "done"
  /\ UNCHANGED <<op, args, now, memo, world>>

RunGetDefaultBulkInferenceMachineSpecs ==
  /\ pc = "call"
  /\ op = "get_default_bulk_inference_machine_specs"
  /\ result' = get_default_bulk_inference_machine_specs(
                 args.large_model_reference, args.use_gpu_defaults,
                 args.accelerator_type_override,
                 args.accelerator_count_override)
  /\ pc' = "done"
  /\ UNCHANGED <<op, args, now, memo, world>>

RunResolveImageUri ==
  /\ pc = "call"
  /\ op = "resolve_image_uri"
  /\ result' = resolve_image_uri(
                 args.image_name, args.project, args.location,
                 args.artifact_registry, args.image_name_prefix, args.tag,
                 args.accelerator_type, args.accelerator_count)
  /\ pc' = "done"
  /\ UNCHANGED <<op, args, now, memo, world>>

RunResolveReferenceModelMetadata ==
  /\ pc = "call"
  /\ op = "resolve_reference_model_metadata"
  /\ result' = resolve_reference_model_metadata(
                 args.large_model_reference, args.reference_model_path)
  /\ pc' = "done"
  /\ UNCHANGED <<op, args, now, memo, world>>

RunGenerateDefaultInstruction ==
  /\ pc = "call"
  /\ op = "generate_default_instruction"
  /\ result' = generate_default_instruction(
                 args.task, args.target_sequence_length,
                 args.instruction_override)
  /\ pc' = "done"
  /\ UNCHANGED <<op, args, now, memo, world>>

RunResolveInstruction ==
  /\ pc = "call"
  /\ op = "resolve_instruction"
  /\ result' = resolve_instruction(args.large_model_reference,
                                   args.instruction)
  /\ pc' = "done"
  /\ UNCHANGED <<op, args, now, memo, world>>

\* the caller resolves the large_model_reference it was given back, with
\* the same path argument, and keeps the first call for comparison
ResolveReturnedReference ==
  /\ pc = "done"
  /\ op = "resolve_reference_model_metadata"
  /\ ~result.raised
  /\ ~memo.set
  /\ memo' = [set |-> TRUE, kind |-> "returned_reference",
              op |-> op, args |-> args, result |-> result]
  /\ args' = [large_model_reference |-> result.value.large_model_reference,
              reference_model_path |-> args.reference_model_path]
  /\ result' = <<>>
  /\ pc' = "call"
  /\ UNCHANGED <<op, now, world>>

RunResolveModelDisplayName ==
  /\ pc = "call"
  /\ op = "resolve_model_display_name"
  /\ result' = resolve_model_display_name(args.large_model_reference,
                                          args.model_display_name)
  /\ pc' = "done"
  /\ UNCHANGED <<op, args, now, memo, world>>

\* remote_runner.get_model up to the format check
GetModelValidate ==
  /\ pc = "call"
  /\ op = "get_model"
  /\ IF args.location = None
       THEN result' = Raise(NoneTypeConcatError) /\ pc' = "done"
     ELSE IF ~TruthyStr(args.location) \/ ~TruthyStr(args.project)
       THEN result' = Raise(ModelResourceNameFormatError) /\ pc' = "done"
     ELSE result' = result /\ pc' = "get_model_request"
  /\ UNCHANGED <<op, args, now, memo, world>>

\* client.get_model(request): the service answers or the call raises
GetModelRequest ==
  /\ pc = "get_model_request"
  /\ LET sent == [world EXCEPT
                    !.request_sent = TRUE,
                    !.requested_name =
                      model_resource_name(args.project, args.location,
                                          args.model_name)]
     IN \/ \E response \in GetModelResponses :
             /\ world' = [sent EXCEPT !.response_received = TRUE,
                                      !.response = Some(response)]
             /\ pc' = "get_model_update"
             /\ result' = result
        \/ /\ world' = sent
           /\ result' = Raise(GetModelRequestError)
           /\ pc' = "done"
  /\ UNCHANGED <<op, args, now, memo>>

\* artifact_utils.update_output_artifacts(executor_input, [vertex_model])
GetModelUpdateArtifacts ==
  /\ pc = "get_model_update"
  /\ world' = [world EXCEPT
                 !.artifact_updated = TRUE,
                 !.artifact_uri =
                   vertex_uri_prefix(args.location)
                     \o versioned_resource_name(world.response[1])]
  /\ pc' = "get_model_write"
  /\ UNCHANGED <<op, args, result, now, memo>>

\* the gcp_resources file is written and get_model returns
GetModelWriteResources ==
  /\ pc = "get_model_write"
  /\ world' = [world EXCEPT
                 !.gcp_resources_written = TRUE,
                 !.gcp_resources =
                   RESOURCE_TYPE \o " "
                     \o vertex_uri_prefix(args.location)
                     \o versioned_resource_name(world.response[1])]
  /\ result' = Return(None)
  /\ pc' = "done"
  /\ UNCHANGED <<op, args, now, memo>>

Next ==
  \/ RunResolveMachineSpec
  \/ RunGetDefaultBulkInferenceMachineSpecs
  \/ RunResolveImageUri
  \/ RunResolveReferenceModelMetadata
  \/ ResolveReturnedReference
  \/ RunGenerateDefaultInstruction
  \/ RunResolveInstruction
  \/ RunResolveModelDisplayName
  \/ GetModelValidate
  \/ GetModelRequest
  \/ GetModelUpdateArtifacts
  \/ GetModelWriteResources

Spec == Init /\ [][Next]_vars

----------------------------------------------------------------------------
(* Repeated calls: callers invoke resolvers one after another while the    *)
(* clock runs; one finished call is kept (memo) to compare a later call    *)
(* with the same arguments against.                                        *)

\* the calls that are repeated: for every resolver some that return and,
\* where it can fail, some that raise
RepeatCall(o, a) ==
  \/ /\ o = "resolve_machine_spec"
     /\ a \in {[location |-> l, use_test_spec |-> FALSE] :
                 l \in {"europe-west4", "us-east1"}}
  \/ /\ o = "get_default_bulk_inference_machine_specs"
     /\ a \in {[large_model_reference |-> m, use_gpu_defaults |-> TRUE,
                accelerator_type_override |-> Some("NVIDIA_A100_80GB"),
                accelerator_count_override |-> Some(c)] :
                 m \in {"BISON", "bison"}, c \in {8, 9}}
  \/ /\ o = "resolve_image_uri"
     /\ a \in {[image_name |-> "sft", project |-> "vertex-ai-restricted",
                location |-> "us-central1", artifact_registry |-> "rlhf",
                image_name_prefix |-> "rlhf_", tag |-> "latest",
                accelerator_type |-> t, accelerator_count |-> 8] :
                 t \in {"TPU_V3", "NVIDIA_A100_80GB"}}
  \/ /\ o = "resolve_reference_model_metadata"
     /\ a \in {[large_model_reference |-> id, reference_model_path |-> None] :
                 id \in {<<"T", "5", "_", "S", "M", "A", "L", "L">>,
                         <<"t", "e", "x", "t", "-", "b", "i", "s", "o", "n">>}}
  \/ /\ o = "generate_default_instruction"
     /\ a \in {[task |-> t, target_sequence_length |-> 64,
                instruction_override |-> ""] :
                 t \in {<<"s", "u", "m", "m", "a", "r", "i", "z", "a", "t", "i", "o", "n">>, <<"q", "a">>}}
  \/ /\ o = "resolve_instruction"
     /\ a \in {[large_model_reference |-> id,
                instruction |-> Some("Be terse")] :
                 id \in {<<"c", "h", "a", "t", "-", "b", "i", "s", "o", "n", "@", "0", "0", "1">>, <<"B", "I", "S", "O", "N">>}}
  \/ /\ o = "resolve_model_display_name"
     /\ a \in {[large_model_reference |-> <<"B", "I", "S", "O", "N">>,
                model_display_name |-> n] : n \in ModelDisplayNames}

InitRepeat ==
  /\ pc = "call"
  /\ result = <<>>
  /\ now = 0
  /\ memo = NoMemo
  /\ world = NoEffects
  /\ RepeatCall(op, args)

\* the clock advances
Tick ==
  /\ now < MaxTime
  /\ now' = now + 1
  /\ UNCHANGED <<pc, op, args, result, memo, world>>

\* the finished call is kept for comparison
Remember ==
  /\ pc = "done"
  /\ ~memo.set
  /\ memo' = [set |-> TRUE, kind |-> "repeat", op |-> op, args |-> args,
              result |-> result, at |-> now, others |-> FALSE]
  /\ UNCHANGED <<pc, op, args, result, now, world>>

\* a caller makes the next call; memo notes that a call other than the one
\* it keeps has been made since
NextCall ==
  /\ pc = "done"
  /\ RepeatCall(op', args')
  /\ result' = <<>>
  /\ pc' = "call"
  /\ memo' = IF memo.set /\ (memo.op # op \/ memo.args # args)
               THEN [memo EXCEPT !.others = TRUE]
               ELSE memo
  /\ UNCHANGED <<now, world>>

NextRepeat ==
  \/ RunResolveMachineSpec
  \/ RunGetDefaultBulkInferenceMachineSpecs
  \/ RunResolveImageUri
  \/ RunResolveReferenceModelMetadata
  \/ RunGenerateDefaultInstruction
  \/ RunResolveInstruction
  \/ RunResolveModelDisplayName
  \/ Tick
  \/ Remember
  \/ NextCall

SpecRepeat == InitRepeat /\ [][NextRepeat]_vars

----------------------------------------------------------------------------
(* Vocabulary of the properties.                                           *)

Done(o) == pc = "done" /\ op = o

BulkDone == Done("get_default_bulk_inference_machine_specs")

AllowList ==
  {"PALM_TINY", "GECKO", "OTTER", "BISON", "ELEPHANT",
   "T5_SMALL", "T5_LARGE", "T5_XL", "T5_XXL"}

ValidTypes == {"TPU_V2", "TPU_V3", "NVIDIA_TESLA_A100", "NVIDIA_A100_80GB"}

\* a type override is supplied when the caller passed a type name for it
\* (the empty string names no accelerator type)
SuppliedType(o) == o # None /\ o[1] # ""

\* a count override is supplied when the caller passed a number for it
SuppliedCount(o) == o # None

\* the tier ladders as ordered (inclusive upper bound, machine type) pairs
HighGpuLadder ==
  << <<1, "a2-highgpu-1g">>, <<2, "a2-highgpu-2g">>, <<4, "a2-highgpu-4g">>,
     <<8, "a2-highgpu-8g">>, <<16, "a2-megagpu-16g">> >>

UltraGpuLadder ==
  << <<1, "a2-ultragpu-1g">>, <<2, "a2-ultragpu-2g">>,
     <<4, "a2-ultragpu-4g">>, <<8, "a2-ultragpu-8g">> >>

\* first matching bound wins; "none" above the last bound
LadderTier(ladder, c) ==
  IF \A i \in 1..Len(ladder) : c > ladder[i][1] THEN "none"
  ELSE LET i == CHOOSE k \in 1..Len(ladder) :
                  /\ c <= ladder[k][1]
                  /\ \A j \in 1..(k - 1) : c > ladder[j][1]
       IN ladder[i][2]

TierOf(t, c) ==
  IF t \in {"TPU_V2", "TPU_V3"} THEN "cloud-tpu"
  ELSE IF t = "NVIDIA_TESLA_A100" THEN LadderTier(HighGpuLadder, c)
  ELSE IF t = "NVIDIA_A100_80GB" THEN LadderTier(UltraGpuLadder, c)
  ELSE "none"

----------------------------------------------------------------------------
\* C1: for an accepted model, a type override supplied together with a
\* count override below 1 (0 or negative) fails with
\* InvalidAcceleratorCountError and with no other error.
C1_CountBelowOneIsInvalidCount ==
  (/\ BulkDone
   /\ args.large_model_reference \in AllowList
   /\ SuppliedType(args.accelerator_type_override)
   /\ SuppliedCount(args.accelerator_count_override)
   /\ args.accelerator_count_override[1] < 1)
  => (result.raised /\ result.error = InvalidAcceleratorCountError)

\* C2: for an accepted model the overrides are all-or-nothing: exactly one
\* supplied fails with InvalidOverrideError; both supplied and a spec
\* returned means the spec carries the override values; neither supplied
\* means it carries the default values.
C2_OverridesAllOrNothing ==
  (BulkDone /\ args.large_model_reference \in AllowList) =>
    LET t == args.accelerator_type_override
        c == args.accelerator_count_override
        d == IF args.use_gpu_defaults
               THEN reference_model_to_model_specs_gpu[
                      args.large_model_reference]
               ELSE tpu_default_machine_spec
    IN /\ (SuppliedType(t) # SuppliedCount(c))
            => (result.raised /\ result.error = InvalidOverrideError)
       /\ (SuppliedType(t) /\ SuppliedCount(c) /\ ~result.raised)
            => /\ result.value.accelerator_type = t[1]
               /\ result.value.accelerator_count = c[1]
       /\ (t = None /\ c = None)
            => /\ ~result.raised
               /\ result.value.accelerator_type = d.accelerator_type
               /\ result.value.accelerator_count = d.accelerator_count

\* C3: every MachineSpec returned by resolve_machine_spec or by
\* get_default_bulk_inference_machine_specs has a positive count, a type of
\* the valid set and the machine type the tier ladder assigns to its type
\* and count; so has every entry of the GPU-defaults table.
C3_ReturnedSpecIsWellFormed ==
  /\ (/\ pc = "done"
      /\ op \in {"resolve_machine_spec",
                 "get_default_bulk_inference_machine_specs"}
      /\ ~result.raised)
     => /\ result.value.accelerator_count > 0
        /\ result.value.accelerator_type \in ValidTypes
        /\ result.value.machine_type =
             TierOf(result.value.accelerator_type,
                    result.value.accelerator_count)
  /\ \A m \in DOMAIN reference_model_to_model_specs_gpu :
       LET e == reference_model_to_model_specs_gpu[m]
       IN /\ e.accelerator_count > 0
          /\ e.accelerator_type \in ValidTypes
          /\ e.machine_type = TierOf(e.accelerator_type, e.accelerator_count)

\* C3 witness: an overridden bulk spec was returned on a tier boundary.
C3_Witness ==
  /\ BulkDone
  /\ ~result.raised
  /\ args.accelerator_type_override = Some("NVIDIA_A100_80GB")
  /\ args.accelerator_count_override = Some(5)
  /\ result.value.machine_type = "a2-ultragpu-8g"

\* the accelerator type and count in effect in a finished bulk call that
\* got as far as tiering: the overrides when both are set, the defaults
\* when none was passed
TieringReached ==
  /\ BulkDone
  /\ args.large_model_reference \in AllowList
  /\ \/ /\ SuppliedType(args.accelerator_type_override)
        /\ SuppliedCount(args.accelerator_count_override)
     \/ /\ args.accelerator_type_override = None
        /\ args.accelerator_count_override = None

TypeInEffect ==
  IF args.accelerator_type_override # None
    THEN args.accelerator_type_override[1]
  ELSE IF args.use_gpu_defaults THEN "NVIDIA_TESLA_A100" ELSE "TPU_V3"

CountInEffect ==
  IF args.accelerator_count_override # None
    THEN args.accelerator_count_override[1]
  ELSE IF ~args.use_gpu_defaults THEN 32
  ELSE IF args.large_model_reference \in {"BISON", "ELEPHANT"} THEN 8
  ELSE IF args.large_model_reference \in {"OTTER", "T5_XXL"} THEN 2
  ELSE 1

Gives(machine_type) ==
  ~result.raised /\ result.value.machine_type = machine_type

Fails(error) == result.raised /\ result.error = error

\* C4: for every count >= 1 in effect the tier ladder holds exactly:
\* NVIDIA_TESLA_A100 1, 2, 3..4, 5..8, 9..16 give the five a2-highgpu /
\* a2-megagpu tiers and more than 16 fails with TooManyAcceleratorsError;
\* NVIDIA_A100_80GB 1, 2, 3..4, 5..8 give the four a2-ultragpu tiers and
\* more than 8 fails with TooManyAcceleratorsError; TPU_V2 and TPU_V3 give
\* cloud-tpu for every count; any other type fails with
\* UnknownAcceleratorTypeError.
C4_TierLadder ==
  (TieringReached /\ CountInEffect >= 1) =>
    LET t == TypeInEffect
        c == CountInEffect
    IN /\ t = "NVIDIA_TESLA_A100" =>
            /\ c = 1 => Gives("a2-highgpu-1g")
            /\ c = 2 => Gives("a2-highgpu-2g")
            /\ c \in 3..4 => Gives("a2-highgpu-4g")
            /\ c \in 5..8 => Gives("a2-highgpu-8g")
            /\ c \in 9..16 => Gives("a2-megagpu-16g")
            /\ c > 16 =>
                 Fails("Too many NVIDIA_TESLA_A100 requested. Must be <= 16.")
       /\ t = "NVIDIA_A100_80GB" =>
            /\ c = 1 => Gives("a2-ultragpu-1g")
            /\ c = 2 => Gives("a2-ultragpu-2g")
            /\ c \in 3..4 => Gives("a2-ultragpu-4g")
            /\ c \in 5..8 => Gives("a2-ultragpu-8g")
            /\ c > 8 =>
                 Fails("Too many NVIDIA_A100_80GB requested. Must be <= 8.")
       /\ t \in {"TPU_V2", "TPU_V3"} => Gives("cloud-tpu")
       /\ t \notin ValidTypes => Fails(UnknownAcceleratorTypeError)

\* C4 witness: 17 NVIDIA_TESLA_A100 were requested and refused.
C4_Witness ==
  /\ TieringReached
  /\ TypeInEffect = "NVIDIA_TESLA_A100"
  /\ CountInEffect = 17
  /\ result.raised

ResolveMachineSpecDone == Done("resolve_machine_spec")

\* C5: with use_test_spec = true resolve_machine_spec returns the fixed
\* test spec (a2-highgpu-1g, NVIDIA_TESLA_A100, 1) for every location and
\* never fails with UnsupportedLocationError.
C5_TestSpecTakesPrecedence ==
  (ResolveMachineSpecDone /\ args.use_test_spec) =>
    /\ ~result.raised
    /\ result.value.machine_type = "a2-highgpu-1g"
    /\ result.value.accelerator_type = "NVIDIA_TESLA_A100"
    /\ result.value.accelerator_count = 1

\* C5 witness: the test spec was asked for in a TPU region.
C5_Witness ==
  /\ ResolveMachineSpecDone
  /\ args.use_test_spec
  /\ args.location = "europe-west4"
  /\ ~result.raised

\* C6: with use_test_spec = false resolve_machine_spec fails with
\* UnsupportedLocationError exactly for the locations outside europe-west4
\* and us-central1, returns (cloud-tpu, TPU_V3, 64) for europe-west4 and
\* (a2-ultragpu-8g, NVIDIA_A100_80GB, 8) for us-central1, and the TPU and
\* GPU region sets are disjoint.
C6_RegionClassification ==
  /\ tpu_regions \cap gpu_regions = {}
  /\ (ResolveMachineSpecDone /\ ~args.use_test_spec) =>
       /\ result.raised <=> args.location \notin {"europe-west4", "us-central1"}
       /\ result.raised => result.error = UnsupportedLocationError
       /\ args.location = "europe-west4" =>
            result = Return(MachineSpec("cloud-tpu", "TPU_V3", 64))
       /\ args.location = "us-central1" =>
            result = Return(MachineSpec("a2-ultragpu-8g",
                                        "NVIDIA_A100_80GB", 8))

\* C6 witness: a location of neither region set was refused.
C6_Witness ==
  /\ ResolveMachineSpecDone
  /\ ~args.use_test_spec
  /\ args.location = "us-east1"
  /\ result.raised

\* C7: every large_model_reference that is not literally in the allow-list
\* fails with UnknownModelError, whatever use_gpu_defaults and the
\* overrides are.
C7_UnknownModelFirst ==
  (BulkDone /\ args.large_model_reference \notin AllowList) =>
    Fails(UnknownModelError)

\* C7 witness: an unknown model (the lower-cased name of an accepted one)
\* was refused while only one override was passed.
C7_Witness ==
  /\ BulkDone
  /\ args.large_model_reference = "bison"
  /\ args.accelerator_type_override = Some("TPU_V3")
  /\ args.accelerator_count_override = None
  /\ result.raised

\* C8: with no override passed every accepted model succeeds: without GPU
\* defaults the result is (TPU_V3, 32, cloud-tpu) whatever the model, with
\* GPU defaults it has the type and count of the model's entry in the
\* GPU-defaults table, whose keys are exactly the allow-list.
C8_Defaults ==
  /\ DOMAIN reference_model_to_model_specs_gpu = AllowList
  /\ (/\ BulkDone
      /\ args.large_model_reference \in AllowList
      /\ args.accelerator_type_override = None
      /\ args.accelerator_count_override = None)
     => /\ ~result.raised
        /\ ~args.use_gpu_defaults =>
             /\ result.value.accelerator_type = "TPU_V3"
             /\ result.value.accelerator_count = 32
             /\ result.value.machine_type = "cloud-tpu"
        /\ args.use_gpu_defaults =>
             LET e == reference_model_to_model_specs_gpu[
                        args.large_model_reference]
             IN /\ result.value.accelerator_type = e.accelerator_type
                /\ result.value.accelerator_count = e.accelerator_count

\* C8 witness: the TPU default was returned for an accepted model.
C8_Witness ==
  /\ BulkDone
  /\ args.large_model_reference = "T5_XXL"
  /\ ~args.use_gpu_defaults
  /\ args.accelerator_type_override = None
  /\ args.accelerator_count_override = None
  /\ ~result.raised

ResolveImageUriDone == Done("resolve_image_uri")

BackupEligible ==
  {"sft", "reward_model", "reinforcer", "infer",
   "text_importer", "text_comparison_importer"}

CpuOnly == {"text_importer", "text_comparison_importer"}

\* the URI of the call's image with the given suffix
UriWith(suffix) ==
  args.location \o "-docker.pkg.dev/" \o args.project \o "/"
    \o args.artifact_registry \o "/" \o args.image_name_prefix
    \o args.image_name \o suffix \o ":" \o args.tag

\* C9: _backup is appended to the accelerator suffix exactly when the image
\* is backup-eligible and the suffix is not _gpu_test: a backup-eligible
\* image that is not CPU-only gets _gpu_test with NVIDIA_A100_80GB and
\* count 8 and _tpu_backup with TPU_V3; an image outside the set never gets
\* _backup.
C9_BackupSuffix ==
  ResolveImageUriDone =>
    /\ ~result.raised
    /\ \E s \in {"", "_tpu", "_gpu_test", "_gpu"} :
         result.value =
           UriWith(IF args.image_name \in BackupEligible /\ s # "_gpu_test"
                     THEN s \o "_backup" ELSE s)
    /\ (/\ args.image_name \in BackupEligible \ CpuOnly
        /\ args.accelerator_type = "NVIDIA_A100_80GB"
        /\ args.accelerator_count = 8)
       => result.value = UriWith("_gpu_test")
    /\ (/\ args.image_name \in BackupEligible \ CpuOnly
        /\ args.accelerator_type = "TPU_V3")
       => result.value = UriWith("_tpu_backup")

\* C9 witness: sft was resolved for 8 NVIDIA_A100_80GB.
C9_Witness ==
  /\ ResolveImageUriDone
  /\ args.image_name = "sft"
  /\ args.accelerator_type = "NVIDIA_A100_80GB"
  /\ args.accelerator_count = 8
  /\ ~result.raised

\* the accelerator suffix by strict priority
SuffixByPriority ==
  IF args.image_name \in CpuOnly THEN ""
  ELSE IF args.accelerator_type = "TPU_V3" THEN "_tpu"
  ELSE IF args.accelerator_type = "NVIDIA_A100_80GB"
            /\ args.accelerator_count = 8 THEN "_gpu_test"
  ELSE "_gpu"

MetadataDone == Done("resolve_reference_model_metadata")

\* the lower-case letter of every upper-case letter
Fold ==
  ("A" :> "a") @@ ("B" :> "b") @@ ("C" :> "c") @@ ("D" :> "d") @@ ("E" :>
  "e") @@ ("F" :> "f") @@ ("G" :> "g") @@ ("H" :> "h") @@ ("I" :> "i") @@
  ("J" :> "j") @@ ("K" :> "k") @@ ("L" :> "l") @@ ("M" :> "m") @@ ("N" :>
  "n") @@ ("O" :> "o") @@ ("P" :> "p") @@ ("Q" :> "q") @@ ("R" :> "r") @@
  ("S" :> "s") @@ ("T" :> "t") @@ ("U" :> "u") @@ ("V" :> "v") @@ ("W" :>
  "w") @@ ("X" :> "x") @@ ("Y" :> "y") @@ ("Z" :> "z")

\* an identifier lower-cased and with '_' replaced by '-'
NormalizedKey(id) ==
  [i \in 1..Len(id) |->
     IF id[i] = "_" THEN "-"
     ELSE IF id[i] \in DOMAIN Fold THEN Fold[id[i]]
     ELSE id[i]]

RegistryKeys == {reference_models[i][1] : i \in 1..Len(reference_models)}

RegistryEntry(k) == dict_get(reference_models, k)

\* C11: every identifier whose normalized key is a registry key resolves,
\* supported or not, to the entry of that key (so identifiers with the same
\* normalized key resolve alike): large_model_reference,
\* reward_model_reference and reward_model_path are the entry's, and
\* reference_model_path is the caller's path when that is non-empty and the
\* entry's path when it is absent or empty.
C11_HitReturnsEntry ==
  (MetadataDone /\ NormalizedKey(args.large_model_reference) \in RegistryKeys)
  => LET e == RegistryEntry(NormalizedKey(args.large_model_reference))
         o == args.reference_model_path
     IN /\ ~result.raised
        /\ result.value.large_model_reference = e.large_model_reference
        /\ result.value.reward_model_reference = e.reward_model_reference
        /\ result.value.reward_model_path = e.reward_model_path
        /\ result.value.reference_model_path =
             IF o # None /\ o[1] # "" THEN o[1] ELSE e.reference_model_path

\* C11 witness: BISON, an entry that is not is_supported, was resolved with
\* a path override.
C11_Witness ==
  /\ MetadataDone
  /\ args.large_model_reference = <<"B", "I", "S", "O", "N">>
  /\ args.reference_model_path = Some("gs://my-bucket/tuned_bison/")
  /\ ~result.raised
  /\ result.value.reference_model_path = "gs://my-bucket/tuned_bison/"

\* the supported keys in sorted order
SortedSupportedKeys ==
  <<<<"c", "h", "a", "t", "-", "b", "i", "s", "o", "n", "@", "0", "0", "1">>,
     <<"l", "l", "a", "m", "a", "-", "2", "-", "1", "3", "b">>,
     <<"l", "l", "a", "m", "a", "-", "2", "-", "1", "3", "b", "-", "c", "h", "a", "t">>,
     <<"l", "l", "a", "m", "a", "-", "2", "-", "7", "b">>,
     <<"l", "l", "a", "m", "a", "-", "2", "-", "7", "b", "-", "c", "h", "a", "t">>,
     <<"t", "5", "-", "l", "a", "r", "g", "e">>,
     <<"t", "5", "-", "s", "m", "a", "l", "l">>,
     <<"t", "5", "-", "x", "l">>,
     <<"t", "5", "-", "x", "x", "l">>,
     <<"t", "e", "x", "t", "-", "b", "i", "s", "o", "n", "@", "0", "0", "1">>>>

\* C12: the call fails with UnknownReferenceModelError exactly when the
\* normalized identifier is no registry key, whatever the path argument,
\* and the alternatives it lists are exactly the keys flagged is_supported,
\* sorted: no key that is not is_supported is listed.
C12_MissListsSupportedKeys ==
  MetadataDone =>
    /\ result.raised <=>
         NormalizedKey(args.large_model_reference) \notin RegistryKeys
    /\ result.raised =>
         /\ result.error = UnknownReferenceModelError
         /\ result.must_be_one_of = SortedSupportedKeys
         /\ {result.must_be_one_of[i] : i \in 1..Len(result.must_be_one_of)}
              = {k \in RegistryKeys : RegistryEntry(k).is_supported}
         /\ \A i \in 1..Len(result.must_be_one_of) :
              result.must_be_one_of[i] \notin
                {<<"p", "a", "l", "m", "-", "t", "i", "n", "y">>,
                 <<"g", "e", "c", "k", "o">>, <<"o", "t", "t", "e", "r">>,
                 <<"b", "i", "s", "o", "n">>,
                 <<"e", "l", "e", "p", "h", "a", "n", "t">>}

\* C12 witness: text-bison (no version) was refused although a path
\* override was passed.
C12_Witness ==
  /\ MetadataDone
  /\ args.large_model_reference =
       <<"t", "e", "x", "t", "-", "b", "i", "s", "o", "n">>
  /\ args.reference_model_path = Some("gs://my-bucket/tuned_bison/")
  /\ result.raised

\* the reward reference and path of the entry of a key
RewardOf(k) ==
  <<RegistryEntry(k).reward_model_reference,
    RegistryEntry(k).reward_model_path>>

\* C13: in the registry a metadata call reads, every entry's
\* reward_model_reference normalizes to a registry key
\* whose entry has the same reward_model_path (llama-2-7b-chat shares
\* llama-2-7b's, text-bison@001, chat-bison@001, bison and elephant share
\* otter's), and resolving a returned large_model_reference again succeeds
\* with the same four fields.
C13_RewardSharingPreserved ==
  op = "resolve_reference_model_metadata" =>
    /\ \A k \in RegistryKeys :
         LET r == NormalizedKey(RegistryEntry(k).reward_model_reference)
         IN /\ r \in RegistryKeys
            /\ RegistryEntry(r).reward_model_path
                 = RegistryEntry(k).reward_model_path
    /\ RewardOf(<<"l", "l", "a", "m", "a", "-", "2", "-", "7", "b", "-", "c", "h", "a", "t">>)
         = RewardOf(<<"l", "l", "a", "m", "a", "-", "2", "-", "7", "b">>)
    /\ \A k \in {<<"t", "e", "x", "t", "-", "b", "i", "s", "o", "n", "@", "0", "0", "1">>,
                 <<"c", "h", "a", "t", "-", "b", "i", "s", "o", "n", "@", "0", "0", "1">>,
                 <<"b", "i", "s", "o", "n">>,
                 <<"e", "l", "e", "p", "h", "a", "n", "t">>} :
         RewardOf(k) = RewardOf(<<"o", "t", "t", "e", "r">>)
    /\ (MetadataDone /\ memo.set /\ memo.kind = "returned_reference")
         => result = memo.result

\* C13 witness: the reference returned for llama-2-7b-chat was resolved
\* again.
C13_Witness ==
  /\ MetadataDone
  /\ memo.set
  /\ memo.kind = "returned_reference"
  /\ memo.args.large_model_reference = <<"l", "l", "a", "m", "a", "-", "2", "-", "7", "b", "-", "c", "h", "a", "t">>
  /\ ~result.raised
  /\ result.value.reward_model_reference = <<"L", "L", "A", "M", "A", "_", "2", "_", "7", "B">>

\* an identifier with its upper-case letters lower-cased
LowerCased(id) ==
  [i \in 1..Len(id) |-> IF id[i] \in DOMAIN Fold THEN Fold[id[i]] ELSE id[i]]

\* the decimal numerals of the sequence lengths callers pass
Numeral ==
  (0 - 1 :> "-1") @@ (0 :> "0") @@ (7 :> "7") @@ (64 :> "64")
  @@ (128 :> "128") @@ (1000 :> "1000")

\* C15: a non-empty instruction_override is returned unchanged for every
\* task, recognized or not; with an empty override the lower-cased task
\* 'summarization' gives 'Summarize in less than N words.',
\* 'question_answer' gives 'Answer the question in less than N words.'
\* (N = target_sequence_length) and every other task fails with
\* UnsupportedTaskError.
C15_DefaultInstruction ==
  Done("generate_default_instruction") =>
    LET t == LowerCased(args.task)
        N == Numeral[args.target_sequence_length]
    IN /\ args.instruction_override # "" =>
            result = Return(args.instruction_override)
       /\ (args.instruction_override = ""
             /\ t = <<"s", "u", "m", "m", "a", "r", "i", "z", "a", "t", "i", "o", "n">>) =>
            result = Return("Summarize in less than " \o N \o " words.")
       /\ (args.instruction_override = ""
             /\ t = <<"q", "u", "e", "s", "t", "i", "o", "n", "_", "a", "n", "s", "w", "e", "r">>) =>
            result = Return("Answer the question in less than " \o N
                              \o " words.")
       /\ (args.instruction_override = ""
             /\ t # <<"s", "u", "m", "m", "a", "r", "i", "z", "a", "t", "i", "o", "n">>
             /\ t # <<"q", "u", "e", "s", "t", "i", "o", "n", "_", "a", "n", "s", "w", "e", "r">>) =>
            (result.raised /\ result.error = UnsupportedTaskError)

\* C15 witness: an override was returned for a task that is not recognized.
C15_Witness ==
  /\ Done("generate_default_instruction")
  /\ args.task = <<"q", "a">>
  /\ args.instruction_override = "Be terse"
  /\ result = Return("Be terse")

\* the lower-cased reference has c, h, a, t at four consecutive positions
MentionsChat(id) ==
  \E i \in 1..(Len(id) - 3) :
    /\ LowerCased(id)[i] = "c"
    /\ LowerCased(id)[i + 1] = "h"
    /\ LowerCased(id)[i + 2] = "a"
    /\ LowerCased(id)[i + 3] = "t"

\* C16: resolve_instruction returns the empty string whenever the
\* lower-cased large_model_reference contains 'chat', for every instruction;
\* otherwise it returns the instruction unchanged, an absent instruction as
\* the empty string; it never fails.
C16_InstructionSuppression ==
  Done("resolve_instruction") =>
    /\ ~result.raised
    /\ MentionsChat(args.large_model_reference) => result.value = ""
    /\ ~MentionsChat(args.large_model_reference) =>
         result.value = IF args.instruction = None THEN ""
                        ELSE args.instruction[1]

\* C16 witness: the instruction was suppressed for LLAMA_2_7B_CHAT.
C16_Witness ==
  /\ Done("resolve_instruction")
  /\ args.large_model_reference = <<"L", "L", "A", "M", "A", "_", "2", "_", "7", "B", "_", "C", "H", "A", "T">>
  /\ args.instruction = Some("Be terse")
  /\ result = Return("")

\* project or location is missing (None) or empty
MissingOrEmpty(o) == o = None \/ o = Some("")

\* C17: get_model with a missing or empty project or location fails with
\* the ValueError about the model resource-name format, before a request
\* is sent, an output artifact is updated or the gcp_resources file is
\* written; and the gcp_resources file is only ever written after the
\* get-model request has returned and the output artifact has been updated.
C17_MissingProjectOrLocationIsFormatError ==
  /\ (/\ Done("get_model")
      /\ MissingOrEmpty(args.project) \/ MissingOrEmpty(args.location))
     => /\ result.raised
        /\ result.error = ModelResourceNameFormatError
        /\ ~world.request_sent
        /\ ~world.artifact_updated
        /\ ~world.gcp_resources_written
  /\ world.gcp_resources_written
       => (world.response_received /\ world.artifact_updated)

\* the call just finished has the resolver and arguments of the kept one
SameCallAsKept ==
  /\ pc = "done"
  /\ memo.set
  /\ memo.kind = "repeat"
  /\ memo.op = op
  /\ memo.args = args

\* the display-name default generator: no user-provided name
DisplayNameDefault ==
  /\ op = "resolve_model_display_name"
  /\ (args.model_display_name = None \/ args.model_display_name = Some(""))

====
